---- MODULE Spec2Model ----
(***************************************************************************)
(* Model of the OCI remote loader of docker compose (package remote:       *)
(* ociRemoteLoader.Accept / ociRemoteLoader.Load) with the registry and    *)
(* the filesystem cache it works on.  Callers run Load concurrently; every *)
(* resolver call and every filesystem call of Load is one step.            *)
(***************************************************************************)
EXTENDS Integers, Sequences, FiniteSets, TLC

\* ---------------------------------------------------------------- bounds
\* Load calls started in one behaviour (all callers together).
MaxLoads == 2
\* Bytes a failing Write may have written before it failed, at most.
MaxShort == 1

\* ------------------------------------------------------------- callers
Procs == {"p1", "p2"}

\* ------------------------------------------------------------ constants
\* const prefix = "oci://", as a sequence of characters.
prefix == <<"o", "c", "i", ":", "/", "/">>

\* The media type Load expects of the manifest's config descriptor.
ComposeProjectType == "application/vnd.docker.compose.project"

\* The separator written before every layer after the first: "\n---\n".
Separator == <<"\n", "-", "-", "-", "\n">>

\* The byte a hole of a file reads as.
NUL == "NUL"

\* The name of the composed document inside an entry directory.
ComposeFileName == "compose.yaml"

\* The error values Load can return ("nil": no error).
Nil == "nil"
ErrParse == "invalid reference format"
ErrConfig == "image config error"
ErrDecode == "json: cannot unmarshal"
ErrMediaType == "is not a compose project OCI artifact"
ErrFS == "filesystem error"
ResolverErrors == {"registry error", "context canceled"}

\* ------------------------------------------------------------- registry
\* Blobs of the registry by digest: content-addressed, so fixed.
Blobs == [b1 |-> <<"a">>, b2 |-> <<"b", "\n">>, b3 |-> <<"c">>]

\* Manifests of the registry by the hex of their digest.
Manifests ==
  [h1 |-> [decodes |-> TRUE, mediaType |-> ComposeProjectType, layers |-> <<"b1", "b2">>],
   h2 |-> [decodes |-> TRUE, mediaType |-> ComposeProjectType, layers |-> <<"b2">>],
   h3 |-> [decodes |-> TRUE, mediaType |-> "application/vnd.oci.image.config.v1+json",
           layers |-> <<"b1">>],
   h4 |-> [decodes |-> FALSE, mediaType |-> "", layers |-> <<>>],
   h5 |-> [decodes |-> TRUE, mediaType |-> ComposeProjectType,
           layers |-> <<"b1", "b2", "b3">>]]

Hexes == DOMAIN Manifests

\* A digest is algorithm and hex; Digest.Hex() drops the algorithm.
Digest(h) == <<"sha256", h>>
Hex(d) == d[2]

Tags == {"t", "latest"}
\* The tags that are pushed again while the callers run, and the manifests
\* pushed under them.
MovableTags == {"t"}
PushTargets == {"h2", "h3"}

\* The characters a reference is written with, and what they stand for.
DigestOfChar == [x \in {"1", "2", "3", "4"} |->
                   CASE x = "1" -> "h1" [] x = "2" -> "h2" [] x = "3" -> "h3" [] x = "4" -> "h4"]
TagOfChar == [x \in {"t"} |-> "t"]
RepoChars == {"a"}

\* The references callers hand to the loader registry.
Paths ==
  { prefix \o <<"a", ":", "t">>,        \* oci://a:t       tag reference
    prefix \o <<"a">>,                  \* oci://a         tag reference (latest)
    prefix \o <<"a", "@", "1">>,        \* oci://a@sha256:1  digest reference
    prefix \o <<"A">>,                  \* oci://A         malformed: upper case
    prefix \o <<"a", ":">>,             \* oci://a:        malformed: empty tag
    <<"o", "c", "i", ":", "/", "a">>,   \* oci:/a          another scheme
    <<"x">> \o prefix \o <<"a">>,       \* xoci://a        prefix not at the start
    << >> }                             \* the empty string

\* What the tags point at when the callers start.
InitTags == [t \in Tags |-> IF t = "t" THEN "h1" ELSE "h4"]

\* ---------------------------------------------------------------- state
VARIABLES
  tags,     \* registry: tag -> hex of the manifest it points at
  dirs,     \* filesystem: the directories that exist (paths)
  files,    \* filesystem: the files that exist (paths)
  data,     \* filesystem: the bytes of each file (<<>> when absent)
  loads,    \* Load calls started so far
  pc,       \* per caller: where its call stands
  path,     \* per caller: the reference it handed in
  offline,  \* per caller: g.offline of the loader it calls
  ref,      \* per caller: the parsed reference
  content,  \* per caller: hex of the manifest resolver.Get returned
  miss,     \* per caller: the call took the cache-miss branch
  i,        \* per caller: index of the layer at hand (1-based)
  blob,     \* per caller: bytes of the layer fetched last
  off,      \* per caller: offset of its file descriptor f
  ret,      \* per caller: what the call returned
  log,      \* per caller: the resolver calls and writes of the call, in order
  before,   \* per caller: the callers whose call had returned when its call began
  moved,    \* per caller: a tag was moved since its call began
  rerr,     \* per caller: the error the resolver returned to its call ("" for none)
  blobs,    \* registry: blob digest -> bytes of the blob
  proj,     \* the ToProject call: its options, the environment, where it stands
  cmd       \* the AdaptCmd handler: its contexts, fn's result, where it stands

vars == <<tags, dirs, files, data, loads, pc, path, offline, ref, content,
          miss, i, blob, off, ret, log, before, moved, rerr, blobs, proj, cmd>>

histVars == <<before, moved>>

\* What no step of a Load changes: the blobs of the registry, and the state of
\* the command line around the loader.
fixedVars == <<blobs, proj, cmd>>


\* ------------------------------------------------------------- helpers
Max(a, b) == IF a >= b THEN a ELSE b

\* strings.HasPrefix(s, pre)
HasPrefix(s, pre) == Len(s) >= Len(pre) /\ SubSeq(s, 1, Len(pre)) = pre

\* s[n:]
Drop(s, n) == SubSeq(s, n + 1, Len(s))

\* filepath.Dir of a path kept as its components
Dir(p) == SubSeq(p, 1, Len(p) - 1)

\* filepath.Join
Join(p, name) == Append(p, name)

\* xdg.CacheFile(rel): the per-user cache directory followed by rel.
XdgCacheHome == <<"~", ".cache">>
CacheFile(rel) == XdgCacheHome \o rel

\* Variant: the constructor drops the offline flag.
NewOCIRemoteLoader_NeverOffline(isOffline) ==
  [cache |-> Dir(CacheFile(<<"docker-compose", "oci">>)), offline |-> FALSE]

\* Variant: the cache root keeps the last component of the xdg path
\* (no filepath.Dir).
NewOCIRemoteLoader_KeepScheme(isOffline) ==
  [cache |-> CacheFile(<<"docker-compose", "oci">>), offline |-> isOffline]

\* NewOCIRemoteLoader: the loader value (cache root and offline flag).
NewOCIRemoteLoader(isOffline) ==
  [cache |-> Dir(CacheFile(<<"docker-compose", "oci">>)), offline |-> isOffline]

\* Variant: strings.Contains in place of strings.HasPrefix.
Accept_Contains(p) ==
  \E k \in 1..Len(p) : k + Len(prefix) - 1 <= Len(p) /\ SubSeq(p, k, k + Len(prefix) - 1) = prefix

\* ociRemoteLoader.Accept
Accept(p) == HasPrefix(p, prefix)

\* reference.ParseDockerRef on the remainder of the reference: a repository
\* name, then nothing (tag latest), ":" and a tag, or "@" and a digest.
NoRef == [repo |-> "", tag |-> "", digest |-> ""]
\* Variant: repository names are not checked.
ParseOk_AnyName(r) ==
  /\ Len(r) \in {1, 3}
  /\ Len(r) = 3 =>
       \/ r[2] = ":" /\ r[3] \in DOMAIN TagOfChar
       \/ r[2] = "@" /\ r[3] \in DOMAIN DigestOfChar

ParseOk(r) ==
  /\ Len(r) \in {1, 3}
  /\ r[1] \in RepoChars
  /\ Len(r) = 3 =>
       \/ r[2] = ":" /\ r[3] \in DOMAIN TagOfChar
       \/ r[2] = "@" /\ r[3] \in DOMAIN DigestOfChar
ParseDockerRef(r) ==
  IF ~ParseOk(r) THEN NoRef
  ELSE IF Len(r) = 1 THEN [repo |-> r[1], tag |-> "latest", digest |-> ""]
  ELSE IF r[2] = ":" THEN [repo |-> r[1], tag |-> TagOfChar[r[3]], digest |-> ""]
  ELSE [repo |-> r[1], tag |-> "", digest |-> DigestOfChar[r[3]]]

\* The manifest resolver.Get finds for a parsed reference right now.
Resolve(r) == IF r.digest # "" THEN r.digest ELSE tags[r.tag]

\* Variant: the directory is named by Digest.Algorithm() in place of Hex().
Local_ByAlgorithm(g, d) == Join(g.cache, d[1])

\* local and composeFile of Load, for the descriptor's digest d
Local(g, d) == Join(g.cache, Hex(d))
ComposeFile(g, d) == Join(Local(g, d), ComposeFileName)

\* The paths a compose.yaml can have.
FilePaths == {ComposeFile(NewOCIRemoteLoader(o), Digest(h)) : o \in BOOLEAN, h \in Hexes}

\* Variant: the file is opened for appending, every Write goes to its end.
WriteAt_Append(f, o, b) == f \o b

\* f.Write(b) at offset o of a file holding f: a hole reads as NUL.
WriteAt(f, o, b) ==
  IF Len(b) = 0 THEN f ELSE
  LET padded == IF Len(f) < o THEN f \o [k \in 1..(o - Len(f)) |-> NUL] ELSE f
      n == Max(Len(padded), o + Len(b))
  IN [k \in 1..n |-> IF k > o /\ k <= o + Len(b) THEN b[k - o] ELSE padded[k]]

\* The lengths a failing Write may have written.
ShortWrites(b) == {n \in 0..MaxShort : n < Len(b) \/ n = 0}

NoRet == [path |-> << >>, err |-> "none"]
Returned(p, e) == [path |-> p, err |-> e]

Running(p) == pc[p] \notin {"idle", "skip", "done"}

\* The loader value the caller's call runs on.
Loader(p) == NewOCIRemoteLoader(offline[p])

\* The layers of the manifest the call decoded.
Layers(p) == Manifests[content[p]].layers

\* local and composeFile of the caller's call.
local(p) == Local(Loader(p), Digest(content[p]))
composeFile(p) == ComposeFile(Loader(p), Digest(content[p]))

\* No ToProject call and no command handler has begun.
NoProj == [pc |-> "idle"]
NoCmd == [pc |-> "idle"]

\* ----------------------------------------------------------------- Init
InitWith(tg, bl) ==
  /\ tags = tg
  /\ blobs = bl
  /\ dirs = {}
  /\ files = {}
  /\ data = [f \in FilePaths |-> << >>]
  /\ loads = 0
  /\ pc = [p \in Procs |-> "idle"]
  /\ path = [p \in Procs |-> << >>]
  /\ offline = [p \in Procs |-> FALSE]
  /\ ref = [p \in Procs |-> NoRef]
  /\ content = [p \in Procs |-> ""]
  /\ miss = [p \in Procs |-> FALSE]
  /\ i = [p \in Procs |-> 0]
  /\ blob = [p \in Procs |-> << >>]
  /\ off = [p \in Procs |-> 0]
  /\ ret = [p \in Procs |-> NoRet]
  /\ log = [p \in Procs |-> << >>]
  /\ before = [p \in Procs |-> {}]
  /\ moved = [p \in Procs |-> FALSE]
  /\ rerr = [p \in Procs |-> ""]

\* The callers start on the registry as it stands; no command runs.
Init == InitWith(InitTags, Blobs) /\ proj = NoProj /\ cmd = NoCmd

\* -------------------------------------------------------------- actions
\* return x, err: the call is over.
Finish(p, r) ==
  /\ pc' = [pc EXCEPT ![p] = "done"]
  /\ ret' = [ret EXCEPT ![p] = r]

\* A step of the call that leaves the call's result open.
Goto(p, label) ==
  /\ pc' = [pc EXCEPT ![p] = label]
  /\ UNCHANGED ret

Logged(p, e) == log' = [log EXCEPT ![p] = Append(@, e)]

\* What a new call starts from.
Fresh(p, s, o) ==
  /\ path' = [path EXCEPT ![p] = s]
  /\ offline' = [offline EXCEPT ![p] = o]
  /\ content' = [content EXCEPT ![p] = ""]
  /\ miss' = [miss EXCEPT ![p] = FALSE]
  /\ i' = [i EXCEPT ![p] = 0]
  /\ blob' = [blob EXCEPT ![p] = << >>]
  /\ off' = [off EXCEPT ![p] = 0]
  /\ log' = [log EXCEPT ![p] = << >>]
  /\ before' = [q \in Procs |-> IF q = p THEN {r \in Procs \ {p} : pc[r] = "done"}
                                         ELSE before[q] \ {p}]
  /\ moved' = [moved EXCEPT ![p] = FALSE]
  /\ rerr' = [rerr EXCEPT ![p] = ""]

\* The registry asks Accept and gets false: this loader is not used.  Accept
\* reads its argument alone, so the callers ask before their first Load.
Reject(p) ==
  /\ pc[p] \in {"idle", "skip"}
  /\ \E s \in Paths :
       /\ ~Accept(s)
       /\ Fresh(p, s, offline[p])
       /\ ref' = [ref EXCEPT ![p] = NoRef]
       /\ pc' = [pc EXCEPT ![p] = "skip"]
       /\ ret' = [ret EXCEPT ![p] = NoRet]
  /\ UNCHANGED <<tags, dirs, files, data, loads, fixedVars>>

\* The registry asks Accept, gets true and calls Load: the offline return,
\* reference.ParseDockerRef and its error return.
LoadBegin(p) ==
  /\ ~Running(p)
  /\ loads < MaxLoads
  /\ loads' = loads + 1
  /\ \E s \in Paths, o \in BOOLEAN :
       /\ Accept(s)
       /\ Fresh(p, s, o)
       /\ LET g == NewOCIRemoteLoader(o)
              r == ParseDockerRef(Drop(s, Len(prefix)))
          IN IF g.offline
               THEN /\ ref' = [ref EXCEPT ![p] = NoRef]
                    /\ Finish(p, Returned(<< >>, Nil))
               ELSE IF r = NoRef
                 THEN /\ ref' = [ref EXCEPT ![p] = NoRef]
                      /\ Finish(p, Returned(<< >>, ErrParse))
                 ELSE /\ ref' = [ref EXCEPT ![p] = r]
                      /\ pc' = [pc EXCEPT ![p] = "get"]
                      /\ ret' = [ret EXCEPT ![p] = NoRet]
  /\ UNCHANGED <<tags, dirs, files, data, fixedVars>>

\* storeutil.GetImageConfig fails.
ConfigFail(p) ==
  /\ UNCHANGED <<histVars, fixedVars>>
  /\ pc[p] = "get"
  /\ Finish(p, Returned(<< >>, ErrConfig))
  /\ UNCHANGED <<tags, dirs, files, data, loads, path, offline, ref, content,
                 miss, i, blob, off, log>>
  /\ UNCHANGED rerr

\* resolver.Get(ctx, ref.String()) returns the manifest and its descriptor.
GetManifestOk(p) ==
  /\ UNCHANGED <<histVars, fixedVars>>
  /\ pc[p] = "get"
  /\ content' = [content EXCEPT ![p] = Resolve(ref[p])]
  /\ Logged(p, <<"get", 0>>)
  /\ Goto(p, "stat")
  /\ UNCHANGED <<tags, dirs, files, data, loads, path, offline, ref,
                 miss, i, blob, off>>
  /\ UNCHANGED rerr

\* Variant: a failed manifest fetch is tried again.
GetManifestFail_Retry(p) ==
  /\ UNCHANGED <<histVars, fixedVars>>
  /\ pc[p] = "get"
  /\ Len(log[p]) < 2
  /\ Logged(p, <<"get", 0>>)
  /\ Goto(p, "get")
  /\ UNCHANGED <<tags, dirs, files, data, loads, path, offline, ref, content,
                 miss, i, blob, off, rerr>>

\* resolver.Get of the manifest fails (registry, network, cancelled context).
GetManifestFail(p) ==
  /\ UNCHANGED <<histVars, fixedVars>>
  /\ pc[p] = "get"
  /\ \E e \in ResolverErrors :
       /\ rerr' = [rerr EXCEPT ![p] = e]
       /\ Finish(p, Returned(<< >>, e))
  /\ Logged(p, <<"get", 0>>)
  /\ UNCHANGED <<tags, dirs, files, data, loads, path, offline, ref, content,
                 miss, i, blob, off>>

\* Variant: no presence test, every call populates.
Stat_AlwaysMiss(p) ==
  /\ pc[p] = "stat"
  /\ Goto(p, "mkdir")
  /\ miss' = [miss EXCEPT ![p] = TRUE]
  /\ UNCHANGED <<tags, dirs, files, data, loads, path, offline, ref, content,
                 i, blob, off, log, before, moved, fixedVars>>
  /\ UNCHANGED rerr

\* Variant: the presence test is os.Stat(composeFile).
Stat_FileExists(p) ==
  /\ pc[p] = "stat"
  /\ IF composeFile(p) \in files
       THEN /\ Finish(p, Returned(composeFile(p), Nil))
            /\ UNCHANGED miss
       ELSE /\ Goto(p, "mkdir")
            /\ miss' = [miss EXCEPT ![p] = TRUE]
  /\ UNCHANGED <<tags, dirs, files, data, loads, path, offline, ref, content,
                 i, blob, off, log, before, moved, fixedVars>>
  /\ UNCHANGED rerr

\* Variant: an entry is visible only once its population is over (what a
\* population in a temporary place with a final rename gives).
Stat_CompleteOnly(p) ==
  /\ pc[p] = "stat"
  /\ IF /\ local(p) \in dirs
        /\ \A r \in Procs \ {p} :
             ~(pc[r] \in {"create", "layer", "sep", "write"} /\ local(r) = local(p))
       THEN /\ Finish(p, Returned(composeFile(p), Nil))
            /\ UNCHANGED miss
       ELSE /\ Goto(p, "mkdir")
            /\ miss' = [miss EXCEPT ![p] = TRUE]
  /\ UNCHANGED <<tags, dirs, files, data, loads, path, offline, ref, content,
                 i, blob, off, log, before, moved, fixedVars>>
  /\ UNCHANGED rerr

\* os.Stat(local): a hit returns composeFile, a miss goes on to populate.
Stat(p) ==
  /\ UNCHANGED <<histVars, fixedVars>>
  /\ pc[p] = "stat"
  /\ IF local(p) \in dirs
       THEN /\ Finish(p, Returned(composeFile(p), Nil))
            /\ UNCHANGED miss
       ELSE /\ Goto(p, "mkdir")
            /\ miss' = [miss EXCEPT ![p] = TRUE]
  /\ UNCHANGED <<tags, dirs, files, data, loads, path, offline, ref, content,
                 i, blob, off, log>>
  /\ UNCHANGED rerr

\* os.MkdirAll(local, 0o700)
MkdirOk(p) ==
  /\ UNCHANGED <<histVars, fixedVars>>
  /\ pc[p] = "mkdir"
  /\ dirs' = dirs \cup {local(p)}
  /\ Goto(p, "create")
  /\ UNCHANGED <<tags, files, data, loads, path, offline, ref, content,
                 miss, i, blob, off, log>>
  /\ UNCHANGED rerr

MkdirFail(p) ==
  /\ UNCHANGED <<histVars, fixedVars>>
  /\ pc[p] = "mkdir"
  /\ Finish(p, Returned(<< >>, ErrFS))
  /\ UNCHANGED <<tags, dirs, files, data, loads, path, offline, ref, content,
                 miss, i, blob, off, log>>
  /\ UNCHANGED rerr

\* os.Create(composeFile), then json.Unmarshal and the media type check.
CreateOk(p) ==
  /\ UNCHANGED <<histVars, fixedVars>>
  /\ pc[p] = "create"
  /\ files' = files \cup {composeFile(p)}
  /\ data' = [data EXCEPT ![composeFile(p)] = << >>]
  /\ off' = [off EXCEPT ![p] = 0]
  /\ LET m == Manifests[content[p]]
     IN IF ~m.decodes
          THEN Finish(p, Returned(<< >>, ErrDecode)) /\ UNCHANGED i
          ELSE IF m.mediaType # ComposeProjectType
            THEN Finish(p, Returned(<< >>, ErrMediaType)) /\ UNCHANGED i
            ELSE IF Len(m.layers) = 0
              THEN /\ Finish(p, Returned(composeFile(p), Nil))
                   /\ UNCHANGED i
              ELSE Goto(p, "layer") /\ i' = [i EXCEPT ![p] = 1]
  /\ UNCHANGED <<tags, dirs, loads, path, offline, ref, content,
                 miss, blob, log>>
  /\ UNCHANGED rerr

CreateFail(p) ==
  /\ UNCHANGED <<histVars, fixedVars>>
  /\ pc[p] = "create"
  /\ Finish(p, Returned(<< >>, ErrFS))
  /\ UNCHANGED <<tags, dirs, files, data, loads, path, offline, ref, content,
                 miss, i, blob, off, log>>
  /\ UNCHANGED rerr

\* Variant: the separator goes before every layer (i >= 0 in place of i > 0).
GetLayerOk_SepFirst(p) ==
  /\ pc[p] = "layer"
  /\ blob' = [blob EXCEPT ![p] = blobs[Layers(p)[i[p]]]]
  /\ Logged(p, <<"get", i[p]>>)
  /\ Goto(p, "sep")
  /\ UNCHANGED <<tags, dirs, files, data, loads, path, offline, ref, content,
                 miss, i, off, before, moved, fixedVars>>
  /\ UNCHANGED rerr

\* Variant: no separator is written (i > 0 never holds).
GetLayerOk_NoSep(p) ==
  /\ pc[p] = "layer"
  /\ blob' = [blob EXCEPT ![p] = blobs[Layers(p)[i[p]]]]
  /\ Logged(p, <<"get", i[p]>>)
  /\ Goto(p, "write")
  /\ UNCHANGED <<tags, dirs, files, data, loads, path, offline, ref, content,
                 miss, i, off, before, moved, fixedVars>>
  /\ UNCHANGED rerr

\* reference.WithDigest and resolver.Get of layer i.
GetLayerOk(p) ==
  /\ UNCHANGED <<histVars, fixedVars>>
  /\ pc[p] = "layer"
  /\ blob' = [blob EXCEPT ![p] = blobs[Layers(p)[i[p]]]]
  /\ Logged(p, <<"get", i[p]>>)
  /\ Goto(p, IF i[p] > 1 THEN "sep" ELSE "write")
  /\ UNCHANGED <<tags, dirs, files, data, loads, path, offline, ref, content,
                 miss, i, off>>
  /\ UNCHANGED rerr

\* Variant: a failed layer fetch removes the entry it was populating.
GetLayerFail_Cleanup(p) ==
  /\ UNCHANGED <<histVars, fixedVars>>
  /\ pc[p] = "layer"
  /\ \E e \in ResolverErrors :
       /\ rerr' = [rerr EXCEPT ![p] = e]
       /\ Finish(p, Returned(<< >>, e))
  /\ Logged(p, <<"get", i[p]>>)
  /\ dirs' = dirs \ {local(p)}
  /\ files' = files \ {composeFile(p)}
  /\ data' = [data EXCEPT ![composeFile(p)] = << >>]
  /\ UNCHANGED <<tags, loads, path, offline, ref, content, miss, i, blob, off>>

\* Variant: a layer that cannot be fetched is skipped.
GetLayerFail_Skip(p) ==
  /\ UNCHANGED <<histVars, fixedVars>>
  /\ pc[p] = "layer"
  /\ \E e \in ResolverErrors : rerr' = [rerr EXCEPT ![p] = e]
  /\ Logged(p, <<"get", i[p]>>)
  /\ IF i[p] = Len(Layers(p))
       THEN /\ Finish(p, Returned(composeFile(p), Nil))
            /\ UNCHANGED i
       ELSE /\ Goto(p, "layer")
            /\ i' = [i EXCEPT ![p] = @ + 1]
  /\ UNCHANGED <<tags, dirs, files, data, loads, path, offline, ref, content,
                 miss, blob, off>>

GetLayerFail(p) ==
  /\ UNCHANGED <<histVars, fixedVars>>
  /\ pc[p] = "layer"
  /\ \E e \in ResolverErrors :
       /\ rerr' = [rerr EXCEPT ![p] = e]
       /\ Finish(p, Returned(<< >>, e))
  /\ Logged(p, <<"get", i[p]>>)
  /\ UNCHANGED <<tags, dirs, files, data, loads, path, offline, ref, content,
                 miss, i, blob, off>>

\* f.Write([]byte("\n---\n"))
WriteSepOk(p) ==
  /\ UNCHANGED <<histVars, fixedVars>>
  /\ pc[p] = "sep"
  /\ data' = [data EXCEPT ![composeFile(p)] = WriteAt(@, off[p], Separator)]
  /\ off' = [off EXCEPT ![p] = @ + Len(Separator)]
  /\ Logged(p, <<"sep", i[p]>>)
  /\ Goto(p, "write")
  /\ UNCHANGED <<tags, dirs, files, loads, path, offline, ref, content,
                 miss, i, blob>>
  /\ UNCHANGED rerr

\* A Write that fails after n of its bytes.
FailedWrite(p, b) ==
  /\ UNCHANGED <<histVars, fixedVars>>
  /\ \E n \in ShortWrites(b) :
       /\ data' = [data EXCEPT ![composeFile(p)] = WriteAt(@, off[p], SubSeq(b, 1, n))]
       /\ off' = [off EXCEPT ![p] = @ + n]
  /\ Finish(p, Returned(<< >>, ErrFS))
  /\ UNCHANGED <<tags, dirs, files, loads, path, offline, ref, content,
                 miss, i, blob, log>>
  /\ UNCHANGED rerr

WriteSepFail(p) ==
  /\ pc[p] = "sep"
  /\ FailedWrite(p, Separator)

\* f.Write(content), then the next layer or return composeFile, nil.
WriteLayerOk(p) ==
  /\ UNCHANGED <<histVars, fixedVars>>
  /\ pc[p] = "write"
  /\ data' = [data EXCEPT ![composeFile(p)] = WriteAt(@, off[p], blob[p])]
  /\ off' = [off EXCEPT ![p] = @ + Len(blob[p])]
  /\ Logged(p, <<"write", i[p]>>)
  /\ IF i[p] = Len(Layers(p))
       THEN /\ Finish(p, Returned(composeFile(p), Nil))
            /\ UNCHANGED i
       ELSE /\ Goto(p, "layer")
            /\ i' = [i EXCEPT ![p] = @ + 1]
  /\ UNCHANGED <<tags, dirs, files, loads, path, offline, ref, content,
                 miss, blob>>
  /\ UNCHANGED rerr

WriteLayerFail(p) ==
  /\ pc[p] = "write"
  /\ FailedWrite(p, blob[p])

\* Somebody pushes: a tag of the registry now points at another manifest.
MoveTag ==
  /\ moved' = [p \in Procs |-> moved[p] \/ pc[p] \notin {"idle", "skip"}]
  /\ UNCHANGED before
  /\ \E t \in MovableTags, h \in PushTargets :
       /\ tags[t] # h
       /\ tags' = [tags EXCEPT ![t] = h]
  /\ UNCHANGED <<dirs, files, data, loads, pc, path, offline, ref, content,
                 miss, i, blob, off, ret, log, rerr, fixedVars>>

\* The steps of a call once it has begun.
Step(p) ==
  \/ ConfigFail(p)
  \/ GetManifestOk(p)
  \/ GetManifestFail(p)
  \/ Stat(p)
  \/ MkdirOk(p)
  \/ MkdirFail(p)
  \/ CreateOk(p)
  \/ CreateFail(p)
  \/ GetLayerOk(p)
  \/ GetLayerFail(p)
  \/ WriteSepOk(p)
  \/ WriteSepFail(p)
  \/ WriteLayerOk(p)
  \/ WriteLayerFail(p)

Next ==
  \/ \E p \in Procs : Reject(p)
  \/ \E p \in Procs : LoadBegin(p)
  \/ \E p \in Procs : Step(p)
  \/ MoveTag

Spec == Init /\ [][Next]_vars

\* The same callers when no call overlaps another: a call begins only when
\* no other call is running.
SeqNext ==
  \/ \E p \in Procs : Reject(p)
  \/ \E p \in Procs : (\A q \in Procs \ {p} : ~Running(q)) /\ LoadBegin(p)
  \/ \E p \in Procs : Step(p)
  \/ MoveTag

SeqSpec == Init /\ [][SeqNext]_vars

\* --------------------------------------- one caller, any layer contents
\* The bytes a layer of the registry may hold: nothing, text, the separator
\* itself, and parts of it.
LayerContents ==
  { << >>, <<"a">>, <<"b", "\n">>, Separator, <<"-", "-", "-">>, <<"\n", "-", "-", "-">> }

\* The manifests the tag of the reference may point at: one, two, three layers.
DocManifests == {"h2", "h1", "h5"}

\* The reference of the one caller.
DocPath == prefix \o <<"a", ":", "t">>

DocInit ==
  /\ \E h \in DocManifests, bl \in [DOMAIN Blobs -> LayerContents] :
       InitWith([t \in Tags |-> IF t = "t" THEN h ELSE "h4"], bl)
  /\ proj = NoProj
  /\ cmd = NoCmd

\* The caller's Load of the reference, on a loader that is not offline.
DocBegin ==
  /\ LoadBegin("p1")
  /\ path'["p1"] = DocPath
  /\ ~offline'["p1"]

DocNext ==
  \/ DocBegin
  \/ Step("p1")

DocSpec == DocInit /\ [][DocNext]_vars

\* ------------------------------------------------- the command line
\* The variables of the loader, its registry and its filesystem.
loadVars == <<tags, dirs, files, data, loads, pc, path, offline, ref, content,
              miss, i, blob, off, ret, log, before, moved, rerr>>

\* strconv.ParseBool: the strings it accepts, anything else is a syntax error.
TrueStrings == {"1", "t", "T", "TRUE", "true", "True"}
FalseStrings == {"0", "f", "F", "FALSE", "false", "False"}
ErrSyntax == "strconv.ParseBool: invalid syntax"
ParseBool(v) ==
  IF v \in TrueStrings THEN [val |-> TRUE, err |-> Nil]
  ELSE IF v \in FalseStrings THEN [val |-> FALSE, err |-> Nil]
  ELSE [val |-> FALSE, err |-> ErrSyntax]

\* The values COMPOSE_EXPERIMENTAL_OCI_REMOTE is set to ("": unset or empty).
EnvValues == {"", "true", "1", "T", "false", "0", "yes", "tRuE", "2"}

ErrOCIEnv == "COMPOSE_EXPERIMENTAL_OCI_REMOTE environment variable expects boolean value"
ErrGitEnv == "COMPOSE_EXPERIMENTAL_GIT_REMOTE environment variable expects boolean value"
ErrCache == "initializing git cache"
ErrOptions == "compose error: project options"
ErrProject == "compose error: project"
ErrServices == "no such service"

\* Variant: a value that does not parse counts as disabled.
OCIRemoteLoaderEnabled_Lenient(v) ==
  IF v # "" /\ ParseBool(v).err = Nil
    THEN [enabled |-> ParseBool(v).val, err |-> Nil]
    ELSE [enabled |-> FALSE, err |-> Nil]

\* OCIRemoteLoaderEnabled, for the value v of the environment variable.
OCIRemoteLoaderEnabled(v) ==
  IF v # ""
    THEN IF ParseBool(v).err # Nil
           THEN [enabled |-> FALSE, err |-> ErrOCIEnv]
           ELSE [enabled |-> ParseBool(v).val, err |-> Nil]
    ELSE [enabled |-> FALSE, err |-> Nil]

\* What remote.GitRemoteLoaderEnabled returns: it is enabled, disabled, or its
\* own variable does not parse.
GitOutcomes ==
  { [enabled |-> TRUE, err |-> Nil], [enabled |-> FALSE, err |-> Nil],
    [enabled |-> FALSE, err |-> ErrGitEnv] }

\* The ToProject calls: o.Offline, the value of the OCI variable, and what the
\* Git loader's gate answers.
ProjStarts ==
  { [pc |-> "start", offline |-> o, ociEnv |-> v, git |-> g, po |-> << >>,
     built |-> << >>, net |-> FALSE, ret |-> "none"] :
      o \in BOOLEAN, v \in EnvValues, g \in GitOutcomes }

ProjGoto(label) == proj' = [proj EXCEPT !.pc = label]
ProjReturn(r) == proj' = [proj EXCEPT !.pc = "done", !.ret = r]

\* Variant: the remote loaders are configured whatever o.Offline says.
ToProjectBegin_Always ==
  /\ proj.pc = "start"
  /\ ProjGoto("git")
  /\ UNCHANGED <<loadVars, blobs, cmd>>

\* ToProject: if !o.Offline, configureRemoteLoaders.
ToProjectBegin ==
  /\ proj.pc = "start"
  /\ ProjGoto(IF ~proj.offline THEN "git" ELSE "options")
  /\ UNCHANGED <<loadVars, blobs, cmd>>

\* configureRemoteLoaders: remote.GitRemoteLoaderEnabled()
GitEnabled ==
  /\ proj.pc = "git"
  /\ IF proj.git.err # Nil THEN ProjReturn(proj.git.err)
     ELSE IF proj.git.enabled THEN ProjGoto("newgit")
     ELSE ProjGoto("oci")
  /\ UNCHANGED <<loadVars, blobs, cmd>>

\* remote.NewGitRemoteLoader(o.Offline) and append(po, ...)
NewGitOk ==
  /\ proj.pc = "newgit"
  /\ proj' = [proj EXCEPT !.pc = "oci",
                          !.built = Append(@, "git"),
                          !.po = Append(@, [kind |-> "git", loader |-> [offline |-> proj.offline]])]
  /\ UNCHANGED <<loadVars, blobs, cmd>>

NewGitFail ==
  /\ proj.pc = "newgit"
  /\ ProjReturn(ErrCache)
  /\ UNCHANGED <<loadVars, blobs, cmd>>

\* remote.OCIRemoteLoaderEnabled()
OCIEnabled ==
  /\ proj.pc = "oci"
  /\ LET r == OCIRemoteLoaderEnabled(proj.ociEnv)
     IN IF r.err # Nil THEN ProjReturn(r.err)
        ELSE IF r.enabled THEN ProjGoto("newoci")
        ELSE ProjGoto("options")
  /\ UNCHANGED <<loadVars, blobs, cmd>>

\* remote.NewOCIRemoteLoader(dockerCli, o.Offline) and append(po, ...)
NewOCIOk ==
  /\ proj.pc = "newoci"
  /\ proj' = [proj EXCEPT !.pc = "options",
                          !.built = Append(@, "oci"),
                          !.po = Append(@, [kind |-> "oci", loader |-> NewOCIRemoteLoader(proj.offline)])]
  /\ UNCHANGED <<loadVars, blobs, cmd>>

\* xdg.CacheFile fails in the constructor.
NewOCIFail ==
  /\ proj.pc = "newoci"
  /\ ProjReturn(ErrCache)
  /\ UNCHANGED <<loadVars, blobs, cmd>>

\* o.toProjectOptions(po...)
ToProjectOptions ==
  /\ proj.pc = "options"
  /\ \/ ProjGoto("load")
     \/ ProjReturn(ErrOptions)
  /\ UNCHANGED <<loadVars, blobs, cmd>>

\* cli.ProjectFromOptions(options) and the rest of ToProject: the project is
\* loaded, through the registered loaders where its files are remote (then
\* with network activity), and returned, or loading fails.
ProjectFromOptions ==
  /\ proj.pc = "load"
  /\ \E n \in BOOLEAN, r \in {"project", ErrProject, ErrServices} :
       /\ n => \E k \in 1..Len(proj.po) : ~proj.po[k].loader.offline
       /\ proj' = [proj EXCEPT !.pc = "done", !.net = n, !.ret = r]
  /\ UNCHANGED <<loadVars, blobs, cmd>>

ProjNext ==
  \/ ToProjectBegin
  \/ GitEnabled
  \/ NewGitOk
  \/ NewGitFail
  \/ OCIEnabled
  \/ NewOCIOk
  \/ NewOCIFail
  \/ ToProjectOptions
  \/ ProjectFromOptions

ProjInit == InitWith(InitTags, Blobs) /\ proj \in ProjStarts /\ cmd = NoCmd

ProjSpec == ProjInit /\ [][ProjNext]_vars

\* ------------------------------------------------------------ AdaptCmd
\* StatusCode of the StatusError a cancelled command ends with.
CanceledExitCode == 130
\* compose.CanceledStatus
CanceledStatus == "canceled"

\* Exit codes of the failure categories of compose errors.
ExitCodes == {14, 15, 17}

\* Error values: nil, or an error with what api.IsErrCanceled and errors.As
\* (to compose.Error) find in it, the exit code of its failure category and
\* its text.
NilErr == [kind |-> "nil", isCanceled |-> FALSE, isCompose |-> FALSE, code |-> 0,
           text |-> ""]
StatusError(c, s) ==
  [kind |-> "StatusError", isCanceled |-> FALSE, isCompose |-> FALSE, code |-> c,
   text |-> s]

\* What the wrapped function can return.
FnResults ==
  {NilErr, StatusError(1, "exit status 1")}
    \cup {[kind |-> "error", isCanceled |-> c, isCompose |-> FALSE, code |-> 0,
           text |-> IF c THEN "plain: canceled" ELSE "plain"] : c \in BOOLEAN}
    \cup {[kind |-> "compose.Error", isCanceled |-> c, isCompose |-> TRUE, code |-> x,
           text |-> IF c THEN "compose: canceled" ELSE "compose"] :
            c \in BOOLEAN, x \in ExitCodes}

\* The contexts a command can carry, as fmt.Sprintf("%s", ctx) ends.
ContextKinds == {"Background", "WithCancel", "WithCancel.WithValue", "WithDeadline"}

\* strings.HasSuffix(contextString, ".WithCancel")
HasSuffixWithCancel(k) == k = "WithCancel"

\* The handler is called with a command that carries a context of kind k.
CmdStarts ==
  { [pc |-> "start", parent |-> k, parentErr |-> "nil", wrapped |-> FALSE,
     signalled |-> FALSE, ctxErr |-> "nil", fnRet |-> NilErr, ret |-> NilErr] :
      k \in ContextKinds }

\* Variant: errors.As is asked before the cancellation test.
AdaptErr_ComposeFirst(err, ctxErr) ==
  IF err.isCompose THEN StatusError(err.code, err.text)
  ELSE IF err.isCanceled \/ ctxErr = "canceled"
    THEN StatusError(CanceledExitCode, CanceledStatus)
    ELSE err

\* What the handler makes of fn's result err when ctx.Err() is ctxErr.
AdaptErr(err, ctxErr) ==
  LET e1 == IF err.isCanceled \/ ctxErr = "canceled"
              THEN StatusError(CanceledExitCode, CanceledStatus)
              ELSE err
  IN IF e1.isCompose THEN StatusError(e1.code, e1.text) ELSE e1

\* ctx := cmd.Context(), wrapped in context.WithCancel with a signal handler
\* unless it is a WithCancel context already; then fn is called.
AdaptBegin ==
  /\ cmd.pc = "start"
  /\ cmd' = [cmd EXCEPT !.pc = "fn",
                        !.wrapped = ~HasSuffixWithCancel(cmd.parent),
                        !.ctxErr = cmd.parentErr]
  /\ UNCHANGED <<loadVars, blobs, proj>>

\* SIGTERM or SIGINT arrives: the goroutine calls cancel().
Signal ==
  /\ cmd.pc = "fn"
  /\ cmd.wrapped
  /\ ~cmd.signalled
  /\ cmd' = [cmd EXCEPT !.signalled = TRUE,
                        !.ctxErr = IF @ = "nil" THEN "canceled" ELSE @]
  /\ UNCHANGED <<loadVars, blobs, proj>>

\* The context of the command ends with error e: its children end with it.
ParentEnds(e) ==
  /\ cmd.pc \in {"start", "fn"}
  /\ cmd.parentErr = "nil"
  /\ cmd' = [cmd EXCEPT !.parentErr = e,
                        !.ctxErr = IF cmd.pc = "fn" /\ @ = "nil" THEN e ELSE @]
  /\ UNCHANGED <<loadVars, blobs, proj>>

\* Somebody cancels the context of the command.
ParentCanceled ==
  /\ cmd.parent # "Background"
  /\ ParentEnds("canceled")

\* The deadline of the context of the command passes.
ParentDeadline ==
  /\ cmd.parent = "WithDeadline"
  /\ ParentEnds("deadline exceeded")

\* fn returns; the handler maps its result and returns.
FnReturn ==
  /\ cmd.pc = "fn"
  /\ \E e \in FnResults :
       cmd' = [cmd EXCEPT !.pc = "done", !.fnRet = e, !.ret = AdaptErr(e, cmd.ctxErr)]
  /\ UNCHANGED <<loadVars, blobs, proj>>

CmdNext ==
  \/ AdaptBegin
  \/ Signal
  \/ ParentCanceled
  \/ ParentDeadline
  \/ FnReturn

CmdInit == InitWith(InitTags, Blobs) /\ proj = NoProj /\ cmd \in CmdStarts

CmdSpec == CmdInit /\ [][CmdNext]_vars

\* ------------------------------------------------------ claim vocabulary
\* layer_1 ++ "\n---\n" ++ layer_2 ++ ... ++ layer_N for a sequence of layers.
RECURSIVE Document(_)
Document(ls) ==
  IF Len(ls) = 0 THEN << >>
  ELSE IF Len(ls) = 1 THEN blobs[ls[1]]
  ELSE blobs[ls[1]] \o <<"\n", "-", "-", "-", "\n">> \o Document(Tail(ls))

\* Manifest h decodes and its config descriptor has the expected media type.
ValidManifest(h) == Manifests[h].decodes /\ Manifests[h].mediaType = ComposeProjectType

\* cacheRoot/hex(manifestDigest) and cacheRoot/hex(manifestDigest)/compose.yaml
CacheRoot == NewOCIRemoteLoader(FALSE).cache
EntryDir(h) == CacheRoot \o <<h>>
EntryFile(h) == CacheRoot \o <<h, "compose.yaml">>
EntryPath(p, h) == Loader(p).cache \o <<h, "compose.yaml">>

\* The entry directory of manifest h holds the complete composed document.
Complete(h) ==
  /\ ValidManifest(h)
  /\ EntryFile(h) \in files
  /\ data[EntryFile(h)] = Document(Manifests[h].layers)

\* The reference starts with o c i : / /, character by character.
SchemePrefixed(s) ==
  /\ Len(s) >= 6
  /\ s[1] = "o" /\ s[2] = "c" /\ s[3] = "i" /\ s[4] = ":" /\ s[5] = "/" /\ s[6] = "/"

\* The accepted references of Paths that are no valid artifact address.
MalformedPaths ==
  { <<"o", "c", "i", ":", "/", "/", "A">>, <<"o", "c", "i", ":", "/", "/", "a", ":">> }

Called(p) == pc[p] \notin {"idle", "skip"}
Done(p) == pc[p] = "done"
Succeeded(p) == Done(p) /\ ret[p].err = Nil /\ ret[p].path # << >>
Quiescent == \A p \in Procs : ~Running(p)

ManifestFetches(l) == Cardinality({k \in 1..Len(l) : l[k] = <<"get", 0>>})
BlobFetches(l) == Cardinality({k \in 1..Len(l) : l[k][1] = "get" /\ l[k][2] > 0})
ResolverCalls(l) == ManifestFetches(l) + BlobFetches(l)

\* q's call began after p's call had returned.
After(p, q) == p # q /\ p \in before[q] /\ Done(p) /\ Called(q)

\* ---------------------------------------------------------------- C1
\* C1: whenever no call is running (and none met a filesystem error), every
\* entry directory that exists holds a compose.yaml that is the complete
\* composition of its manifest's layers, and every call that returned a cache
\* hit returned the path of such a file.
C1_CacheEntryInvariant ==
  (Quiescent /\ \A p \in Procs : ret[p].err # ErrFS) =>
    /\ \A h \in Hexes : EntryDir(h) \in dirs => Complete(h)
    /\ \A p \in Procs : Succeeded(p) /\ ~miss[p] => Complete(content[p])

\* ---------------------------------------------------------------- C2
\* C2: a Load that finds another config media type returns an error with an
\* empty path, and a Load for the same manifest digest that begins after it
\* does not return the compose.yaml path without error.
C2_MismatchLeavesNoEntry ==
  \A p \in Procs :
    Done(p) /\ ~offline[p] /\ content[p] # "" /\ miss[p]
      /\ Manifests[content[p]].decodes
      /\ Manifests[content[p]].mediaType # ComposeProjectType
      /\ ret[p].err \notin ({ErrFS} \cup ResolverErrors)
    => /\ ret[p] = Returned(<< >>, ErrMediaType)
       /\ \A q \in Procs :
            After(p, q) /\ Done(q) /\ content[q] = content[p] => ~Succeeded(q)

\* ---------------------------------------------------------------- C3
\* The second Load q of a digest-addressed reference after a first successful
\* Load p of it, on the same loader.
SecondLoad(p, q) ==
  /\ After(p, q)
  /\ Succeeded(p)
  /\ ref[p].digest # ""
  /\ path[q] = path[p]
  /\ ~offline[q]

\* C3 as stated: the second Load returns the identical path and has issued no
\* resolver call at all.
C3_ZeroResolverCalls ==
  \A p, q \in Procs :
    SecondLoad(p, q) /\ Done(q) /\ ret[q].err = Nil
      => ret[q] = ret[p] /\ ResolverCalls(log[q]) = 0

\* C3 amended: the second Load never takes the miss branch and fetches no
\* blob; it issues at most one resolver call, the manifest fetch; it fails
\* only where that fetch or the image configuration fails, and otherwise it
\* returns the identical path after exactly the one manifest fetch.
C3_IdempotentUpToManifestFetch ==
  \A p, q \in Procs :
    SecondLoad(p, q) =>
      /\ ~miss[q]
      /\ BlobFetches(log[q]) = 0
      /\ ManifestFetches(log[q]) <= 1
      /\ Done(q) => /\ ret[q].err \in ({Nil, ErrConfig} \cup ResolverErrors)
                    /\ ret[q].err = Nil => ret[q] = ret[p] /\ log[q] = << <<"get", 0>> >>

C3_Witness ==
  \E p, q \in Procs : SecondLoad(p, q) /\ Succeeded(q) /\ miss[p]

\* ---------------------------------------------------------------- C4
\* C4: when a Load that missed returns without error, compose.yaml holds
\* layer_1 ++ "\n---\n" ++ ... ++ layer_N in the manifest's layer order, the
\* single layer's bytes when N = 1 (calls that do not overlap: SeqSpec).
C4_ComposedDocument ==
  \A p \in Procs :
    Succeeded(p) /\ miss[p] =>
      /\ ret[p].path = EntryPath(p, content[p])
      /\ ret[p].path \in files
      /\ data[ret[p].path] = Document(Layers(p))
      /\ Len(Layers(p)) = 1 => data[ret[p].path] = blobs[Layers(p)[1]]

C4_Witness ==
  \E p, q \in Procs :
    /\ Succeeded(p) /\ miss[p] /\ Len(Layers(p)) = 2
    /\ data[ret[p].path] = <<"a", "\n", "-", "-", "-", "\n", "b", "\n">>
    /\ Succeeded(q) /\ miss[q] /\ Len(Layers(q)) = 1

\* ---------------------------------------------------------------- C5
\* C5: a Load on an offline loader returns the empty path and no error for
\* every accepted reference, has issued no resolver call, and the step that
\* makes the call leaves the cache as it was.
C5_Offline ==
  /\ [](\A p \in Procs :
          Called(p) /\ offline[p] =>
            Done(p) /\ ret[p] = Returned(<< >>, Nil) /\ log[p] = << >> /\ ~miss[p])
  /\ [][(loads' # loads /\ \E p \in Procs : offline'[p] /\ pc'[p] = "done")
          => UNCHANGED <<dirs, files, data>>]_vars

C5_Witness ==
  \E p \in Procs :
    /\ Done(p) /\ offline[p] /\ path[p] \in MalformedPaths
    /\ before[p] # {} /\ dirs # {}

\* ---------------------------------------------------------------- C6
\* C6: with offline unset, a Load of a reference whose remainder is no valid
\* artifact address returns the parse error with an empty path, has issued no
\* resolver call, and leaves the cache as it was.
C6_ParseError ==
  /\ [](\A p \in Procs :
          Called(p) /\ ~offline[p] /\ path[p] \in MalformedPaths =>
            Done(p) /\ ret[p] = Returned(<< >>, ErrParse) /\ log[p] = << >> /\ ~miss[p])
  /\ [][(\E p \in Procs : ret'[p].err = ErrParse /\ ret'[p] # ret[p])
          => UNCHANGED <<dirs, files, data>>]_vars

C6_Witness ==
  \E p \in Procs :
    /\ Done(p) /\ ~offline[p] /\ path[p] = <<"o", "c", "i", ":", "/", "/", "a", ":">>
    /\ before[p] # {} /\ dirs # {}

\* ---------------------------------------------------------------- C7
\* C7: the registry is told this loader does not accept a reference exactly
\* when the reference does not begin with "oci://"; the answer is the same
\* when the same reference is asked again; asking changes neither the
\* registry nor the cache.
C7_Accept ==
  /\ [](\A p \in Procs :
          /\ pc[p] = "skip" => ~SchemePrefixed(path[p])
          /\ Called(p) => SchemePrefixed(path[p]))
  /\ [][\A p \in Procs :
          /\ (pc[p] # "idle" /\ path'[p] = path[p]) => ((pc'[p] = "skip") <=> (pc[p] = "skip"))
          /\ (pc'[p] = "skip" /\ (pc[p] # "skip" \/ path'[p] # path[p]))
               => UNCHANGED <<tags, dirs, files, data, loads>>]_vars

C7_Witness ==
  \E p, q \in Procs :
    /\ pc[p] = "skip" /\ path[p] = <<"x", "o", "c", "i", ":", "/", "/", "a">>
    /\ Called(q) /\ path[q] = <<"o", "c", "i", ":", "/", "/", "a">>

\* ---------------------------------------------------------------- C8
\* C8: when os.Stat finds the entry directory, that step ends the call with
\* cacheRoot/hex(digest)/compose.yaml and no error, with the manifest fetch
\* as its only resolver call, and creates or writes nothing; a call that hit
\* has the manifest fetch as its whole log.
C8_CacheHit ==
  /\ [](\A p \in Procs :
          Called(p) /\ ~offline[p] /\ Succeeded(p) /\ ~miss[p] =>
            /\ log[p] = << <<"get", 0>> >>
            /\ ret[p].path = EntryPath(p, content[p]))
  /\ [][\A p \in Procs :
          (pc[p] = "stat" /\ pc'[p] # "stat" /\ EntryDir(content[p]) \in dirs) =>
            /\ pc'[p] = "done"
            /\ ret'[p] = Returned(EntryPath(p, content[p]), Nil)
            /\ log'[p] = << <<"get", 0>> >>
            /\ ~miss'[p]
            /\ UNCHANGED <<dirs, files, data>>]_vars

\* A hit on the entry of a manifest whose media type was never accepted.
C8_Witness ==
  \E p \in Procs :
    /\ Succeeded(p) /\ ~miss[p]
    /\ Manifests[content[p]].mediaType # ComposeProjectType

\* ---------------------------------------------------------------- C9
\* Load p of a tag reference succeeded; the tag now points at another
\* manifest than p resolved; Load q of the same reference began after p had
\* returned and after the last tag move, and q returned without error.
TagMoved(p, q) ==
  /\ After(p, q)
  /\ Succeeded(p)
  /\ ref[p].tag # ""
  /\ path[q] = path[p]
  /\ ~offline[q]
  /\ Done(q) /\ ret[q].err = Nil
  /\ ~moved[q]
  /\ tags[ref[q].tag] # content[p]

\* C9 as stated: the later Load of the moved tag returns the old entry.
C9_StaleAfterTagMove ==
  \A p, q \in Procs : TagMoved(p, q) => ret[q].path = ret[p].path

\* C9 amended: the later Load of the moved tag returns the entry of the
\* manifest the tag points at now, which is never the old entry.
C9_FreshAfterTagMove ==
  \A p, q \in Procs :
    TagMoved(p, q) =>
      /\ content[q] = tags[ref[q].tag]
      /\ ret[q].path = EntryPath(q, tags[ref[q].tag])
      /\ ret[q].path # ret[p].path

C9_Witness ==
  \E p, q \in Procs : TagMoved(p, q) /\ miss[p] /\ Complete(content[p])

\* --------------------------------------------------------------- C10
\* What a Load of p's reference returns when it runs alone on an empty cache
\* and an unchanged registry.
AloneHex(p) == LET r == ParseDockerRef(Drop(path[p], Len(prefix)))
               IN IF r.digest # "" THEN r.digest ELSE InitTags[r.tag]
AloneErrors(p) ==
  {ErrConfig, ErrFS} \cup ResolverErrors \cup
    (IF ~Manifests[AloneHex(p)].decodes THEN {ErrDecode}
     ELSE IF Manifests[AloneHex(p)].mediaType # ComposeProjectType THEN {ErrMediaType}
     ELSE {Nil})

\* C10: when exactly two Loads, of different references, have run from the
\* empty cache on an unchanged registry, each returns a result it can return
\* alone, and a path returned without error holds the complete document.
C10_IndependentlySafe ==
  \A p, q \in Procs :
    ( /\ p # q /\ loads = 2 /\ tags = InitTags
      /\ Called(p) /\ Called(q) /\ path[p] # path[q]
      /\ ~offline[p] /\ path[p] \notin MalformedPaths
      /\ Done(p) )
    => /\ ret[p].err \in AloneErrors(p)
       /\ ret[p].err = Nil =>
            /\ ret[p].path = EntryPath(p, AloneHex(p))
            /\ Complete(AloneHex(p))

\* --------------------------------------------------------------- C11
\* The per-user cache root of the application, and the directory the claim
\* names for the scheme under it.
AppCacheRoot == XdgCacheHome \o <<"docker-compose">>
SchemeRoot == AppCacheRoot \o <<"oci">>

\* The files that lie in directory d.
FilesIn(d) == {f \in files : Dir(f) = d}

NonBoolean(v) == v # "" /\ v \notin (TrueStrings \cup FalseStrings)

\* The loaders of kind k that ToProject has registered.
Registered(k) == {n \in 1..Len(proj.po) : proj.po[n].kind = k}
Constructed(k) == \E n \in 1..Len(proj.built) : proj.built[n] = k

\* What the claim says of the gate whether or not a value is boolean: an OCI
\* loader is registered only when the value parses as true, and never when
\* the variable is unset or empty.
GateOnlyTrue ==
  /\ Registered("oci") # {} => proj.ociEnv \in TrueStrings
  /\ proj.ociEnv = "" => Registered("oci") = {} /\ ~Constructed("oci")

\* C12 as stated: in addition, for every non-boolean value ToProject fails
\* with the descriptive error before any loader is constructed and before any
\* network activity.
C12_GateAsStated ==
  /\ GateOnlyTrue
  /\ proj.pc = "done" /\ NonBoolean(proj.ociEnv) =>
       proj.ret = ErrOCIEnv /\ proj.built = << >> /\ ~proj.net

\* C12 amended: in addition, for every non-boolean value a ToProject with
\* Offline false fails before the OCI loader is constructed and before any
\* network activity, with the descriptive error unless the Git loader's gate
\* or constructor failed first, and the Git loader is the only loader that can
\* have been constructed by then; a ToProject with Offline true does not read
\* the variable, registers no loader and does not fail with that error.
C12_Gate ==
  /\ GateOnlyTrue
  /\ proj.pc = "done" /\ NonBoolean(proj.ociEnv) /\ ~proj.offline =>
       /\ proj.ret \in {ErrOCIEnv, ErrGitEnv, ErrCache}
       /\ proj.ret = ErrOCIEnv <=> (proj.git.err = Nil /\ (proj.git.enabled => Constructed("git")))
       /\ ~Constructed("oci") /\ Registered("oci") = {}
       /\ ~proj.net
  /\ proj.pc = "done" /\ proj.offline =>
       proj.ret # ErrOCIEnv /\ proj.po = << >> /\ proj.built = << >>

\* A ToProject with Offline false met a non-boolean value and failed with the
\* descriptive error after the Git loader was constructed.
C12_Witness ==
  /\ proj.pc = "done" /\ NonBoolean(proj.ociEnv) /\ ~proj.offline
  /\ proj.ret = ErrOCIEnv /\ proj.built = <<"git">>

\* --------------------------------------------------------------- C13
\* C13: an entry directory, once created, exists in every later state, and no
\* step rewrites (truncates or overwrites) or removes the composed document
\* whose path a Load has already returned to its caller.
C13_EntriesPersist ==
  [][ /\ dirs \subseteq dirs'
      /\ \A p \in Procs :
           Succeeded(p) =>
             /\ ret[p].path \in files => ret[p].path \in files'
             /\ data'[ret[p].path] = data[ret[p].path] ]_vars

\* --------------------------------------------------------------- C14
\* The offsets (1-based) at which "\n---\n" occurs in f.
Occurrences(f) == {k \in 1..(Len(f) - 4) : SubSeq(f, k, k + 4) = Separator}

\* The length of the first k layers of ls joined by the separator.
RECURSIVE JoinedLen(_, _)
JoinedLen(ls, k) ==
  IF k = 0 THEN 0
  ELSE JoinedLen(ls, k - 1) + (IF k > 1 THEN Len(Separator) ELSE 0) + Len(blobs[ls[k]])

\* Where the separators between successive layers of ls begin in the document.
Boundaries(ls) == {JoinedLen(ls, k) + 1 : k \in 1..(Len(ls) - 1)}

\* The layer holds three dashes in a row.
HasDashes(b) == \E k \in 1..(Len(b) - 2) : SubSeq(b, k, k + 2) = <<"-", "-", "-">>

\* A Load that populated the entry and returned its path.
Populated(p) == Succeeded(p) /\ miss[p]

\* C14 as stated: for any layer contents, the document of a successful
\* populating Load holds exactly N-1 occurrences of "\n---\n", each between
\* two successive layers, and none for a single layer.
C14_ExactlyBetweenLayers ==
  \A p \in Procs :
    Populated(p) =>
      /\ Cardinality(Occurrences(data[ret[p].path])) = Len(Layers(p)) - 1
      /\ Occurrences(data[ret[p].path]) = Boundaries(Layers(p))

\* C14 amended: the document holds an occurrence of "\n---\n" at each of the
\* N-1 boundaries between successive layers; these are all its occurrences
\* (so exactly N-1, none for a single layer) when no layer holds three dashes
\* in a row.
C14_BetweenLayers ==
  \A p \in Procs :
    Populated(p) =>
      /\ Cardinality(Boundaries(Layers(p))) = Len(Layers(p)) - 1
      /\ Boundaries(Layers(p)) \subseteq Occurrences(data[ret[p].path])
      /\ (\A k \in 1..Len(Layers(p)) : ~HasDashes(blobs[Layers(p)[k]]))
           => Occurrences(data[ret[p].path]) = Boundaries(Layers(p))

\* A Load composed three layers, none of them empty or with dashes, and the
\* document holds its two separators.
C14_Witness ==
  \E p \in Procs :
    /\ Populated(p) /\ Len(Layers(p)) = 3
    /\ \A k \in 1..3 : blobs[Layers(p)[k]] # << >> /\ ~HasDashes(blobs[Layers(p)[k]])
    /\ Cardinality(Occurrences(data[ret[p].path])) = 2

\* --------------------------------------------------------------- C15
\* p's Load took the miss branch and failed at the fetch of layer k.
FailedAtLayer(p, k) ==
  /\ Done(p) /\ miss[p] /\ rerr[p] # ""
  /\ i[p] = k /\ k >= 1
  /\ log[p][Len(log[p])] = <<"get", k>>

\* C15: when no calls overlap, a Load that fails while fetching layer k leaves
\* the entry directory and a compose.yaml that holds exactly layers 1..k-1
\* joined by the separator (nothing for k = 1); a Load of the same digest
\* that begins after it returns that file's path with no error, fetches no
\* layer and leaves the file as it is.
C15_PartialEntryIsAHit ==
  \A p \in Procs :
    FailedAtLayer(p, i[p]) =>
      /\ ret[p] = Returned(<< >>, rerr[p])
      /\ local(p) \in dirs
      /\ composeFile(p) \in files
      /\ data[composeFile(p)] = Document(SubSeq(Layers(p), 1, i[p] - 1))
      /\ \A q \in Procs :
           After(p, q) /\ Done(q) /\ content[q] = content[p] =>
             /\ ret[q] = Returned(composeFile(p), Nil)
             /\ ~miss[q]
             /\ BlobFetches(log[q]) = 0

\* A Load failed at the fetch of the second layer, and a Load of the same
\* digest after it returned the file that holds the first layer alone.
C15_Witness ==
  \E p, q \in Procs :
    /\ FailedAtLayer(p, 2) /\ After(p, q) /\ Succeeded(q)
    /\ content[q] = content[p]
    /\ data[ret[q].path] = blobs[Layers(p)[1]]
    /\ data[ret[q].path] # Document(Layers(p))

\* --------------------------------------------------------------- C16
\* p's Load has created its entry directory and has not finished populating.
Populating(p) == pc[p] \in {"create", "layer", "sep", "write"}

\* C16: there is no lock around the population of an entry: whenever a Load
\* tests the presence of an entry that another Load is populating, it does
\* not wait and does not miss, it returns the entry's compose.yaml path with
\* no error at once, whatever the file holds by then, and the other Load goes
\* on populating.
C16_HitWhilePopulating ==
  [][ \A p, q \in Procs :
        ( /\ p # q /\ Populating(p)
          /\ pc[q] = "stat" /\ pc'[q] # "stat"
          /\ local(q) = local(p) )
        => /\ pc'[q] = "done"
           /\ ret'[q] = Returned(composeFile(p), Nil)
           /\ ~miss'[q]
           /\ Populating(p)' ]_vars

\* Two Loads of the same reference: one has returned the cache-hit path while
\* the other is still populating, and compose.yaml is missing or is not yet
\* the composed document.
C16_Witness ==
  \E p, q \in Procs :
    /\ p # q /\ path[p] = path[q]
    /\ Populating(p) /\ ValidManifest(content[p])
    /\ Succeeded(q) /\ ~miss[q] /\ ret[q].path = composeFile(p)
    /\ composeFile(p) \notin files \/ data[composeFile(p)] # Document(Layers(p))

\* --------------------------------------------------------------- C17
\* The resolver calls and writes of a Load that populates n layers, in order:
\* the manifest fetch, then for each layer its fetch, the separator (from the
\* second layer on) and its write.
RECURSIVE Protocol(_)
Protocol(n) ==
  IF n = 0 THEN << <<"get", 0>> >>
  ELSE Protocol(n - 1) \o << <<"get", n>> >>
         \o (IF n > 1 THEN << <<"sep", n>> >> ELSE << >>)
         \o << <<"write", n>> >>

IsPrefix(s, t) == Len(s) <= Len(t) /\ s = SubSeq(t, 1, Len(s))

\* A Load of a syntactically valid reference on a loader that is not offline.
ValidCall(p) == Called(p) /\ ~offline[p] /\ ref[p] # NoRef

\* What the claim says of a Load once its manifest is there: the calls of the
\* Load so far are the beginning of the protocol (each fetch once, layer i
\* fetched after layer i-1 is written and before layer i is), and all of it
\* when the Load populated the entry.
InProtocolOrder(p) ==
  /\ content[p] = "" => IsPrefix(log[p], Protocol(0))
  /\ content[p] # "" => IsPrefix(log[p], Protocol(Len(Layers(p))))
  /\ Populated(p) =>
       /\ log[p] = Protocol(Len(Layers(p)))
       /\ BlobFetches(log[p]) = Len(Layers(p))

\* C17 as stated: in addition, every finished non-offline Load of a valid
\* reference has issued exactly one manifest fetch, as its first call.
C17_ProtocolAsStated ==
  \A p \in Procs :
    ValidCall(p) =>
      /\ InProtocolOrder(p)
      /\ Done(p) => ManifestFetches(log[p]) = 1 /\ log[p][1] = <<"get", 0>>

\* C17 amended: in addition, every finished non-offline Load of a valid
\* reference has issued exactly one manifest fetch, as its first call, unless
\* storeutil.GetImageConfig failed: then it has issued no resolver call.
C17_Protocol ==
  \A p \in Procs :
    ValidCall(p) =>
      /\ InProtocolOrder(p)
      /\ Done(p) /\ ret[p].err # ErrConfig =>
           ManifestFetches(log[p]) = 1 /\ log[p][1] = <<"get", 0>>
      /\ Done(p) /\ ret[p].err = ErrConfig => log[p] = << >>

\* A Load populated a two-layer entry: manifest fetch, fetch and write of
\* layer 1, fetch of layer 2, separator, write of layer 2.
C17_Witness ==
  \E p \in Procs :
    /\ ValidCall(p) /\ Populated(p) /\ Len(Layers(p)) = 2
    /\ log[p] = << <<"get", 0>>, <<"get", 1>>, <<"write", 1>>,
                   <<"get", 2>>, <<"sep", 2>>, <<"write", 2>> >>

\* --------------------------------------------------------------- C18
\* The last entry of p's log is a resolver call.
EndsWithFetch(l) == Len(l) > 0 /\ l[Len(l)][1] = "get"

\* C18: when the manifest fetch or a layer fetch of a Load returns an error
\* (a cancellation included), the Load is over with that step: it has
\* returned that same error with an empty path, the failing call is the last
\* entry of its log, and no later step adds a resolver call or a write of
\* that Load.
C18_ResolverFailureAborts ==
  [][ \A p \in Procs :
        rerr'[p] # "" =>
          /\ pc'[p] = "done"
          /\ ret'[p] = Returned(<< >>, rerr'[p])
          /\ EndsWithFetch(log'[p])
          /\ rerr[p] # "" =>
               /\ rerr'[p] = rerr[p]
               /\ log'[p] = log[p]
               /\ off'[p] = off[p] ]_vars

\* A Load was cancelled at the fetch of its second layer, after it had written
\* the first, and the other caller has gone on since.
C18_Witness ==
  \E p, q \in Procs :
    /\ Done(p) /\ rerr[p] = "context canceled" /\ i[p] = 2
    /\ ret[p] = Returned(<< >>, "context canceled")
    /\ log[p] = << <<"get", 0>>, <<"get", 1>>, <<"write", 1>>, <<"get", 2>> >>
    /\ q # p /\ Called(q) /\ p \in before[q]

\* --------------------------------------------------------------- C19
\* p and q are two Loads that both took the miss branch for the same digest
\* and both returned without error.
BothPopulated(p, q) ==
  /\ p # q
  /\ Populated(p) /\ Populated(q)
  /\ content[p] = content[q]

\* C19: when two Loads of the same digest both missed and both completed
\* successfully, then once both have returned compose.yaml holds the complete
\* composition of the manifest's layers, and both returned its path.
C19_BothWritersComplete ==
  \A p, q \in Procs :
    BothPopulated(p, q) =>
      /\ ret[p].path = ret[q].path
      /\ ret[p].path \in files
      /\ data[ret[p].path] = Document(Layers(p))

\* Two Loads of the two-layer manifest overlapped, both missed, both wrote
\* every layer, and both have returned.
C19_Witness ==
  \E p, q \in Procs :
    /\ BothPopulated(p, q) /\ Len(Layers(p)) = 2
    /\ p \notin before[q] /\ q \notin before[p]
    /\ log[p] = Protocol(2) /\ log[q] = Protocol(2)

\* --------------------------------------------------------------- C20
\* fn returned a cancellation error, or the context the handler runs the
\* command on (the command's context, or the cancellable child the handler
\* derives from it and cancels on SIGTERM and SIGINT) is cancelled.
Cancelled == cmd.fnRet.isCanceled \/ cmd.ctxErr = "canceled"

\* C20: the handler returns a StatusError with exit code 130 whenever fn
\* returned a cancellation error or the context is cancelled when fn returns,
\* whatever fn returned; otherwise a compose.Error comes back as a
\* StatusError with the exit code of its failure category and its text, and
\* any other result, nil included, comes back unchanged.
C20_AdaptCmd ==
  cmd.pc = "done" =>
    /\ Cancelled => cmd.ret = StatusError(130, "canceled")
    /\ ~Cancelled /\ cmd.fnRet.kind = "compose.Error" =>
         cmd.ret = StatusError(cmd.fnRet.code, cmd.fnRet.text)
    /\ ~Cancelled /\ cmd.fnRet.kind # "compose.Error" => cmd.ret = cmd.fnRet
    /\ cmd.parentErr = "canceled" => cmd.ctxErr = "canceled"

\* fn returned a compose.Error that is no cancellation after a signal had
\* cancelled the context, and the handler returned exit code 130.
C20_Witness ==
  /\ cmd.pc = "done" /\ cmd.signalled /\ cmd.ctxErr = "canceled"
  /\ cmd.fnRet.kind = "compose.Error" /\ ~cmd.fnRet.isCanceled
  /\ cmd.ret.code = 130

\* --------------------------------------------------------------- C21
\* ToProject stands inside configureRemoteLoaders, where the activation
\* variables are read and the loaders are constructed.
Configuring == proj.pc \in {"git", "newgit", "oci", "newoci"}

\* C21: ToProject configures remote loaders only when Offline is false: every
\* loader it registers, the OCI loader included, has its offline flag false,
\* so a Load on it does not take the offline return; and when Offline is true
\* ToProject never enters configureRemoteLoaders, so the activation variable
\* is not read, no loader is constructed and none is registered.
C21_OfflineSkipsLoaders ==
  /\ Configuring => ~proj.offline
  /\ \A n \in 1..Len(proj.po) :
       /\ ~proj.offline
       /\ ~proj.po[n].loader.offline
       /\ proj.po[n].kind = "oci" => proj.po[n].loader = NewOCIRemoteLoader(FALSE)
  /\ proj.offline =>
       /\ proj.po = << >> /\ proj.built = << >>
       /\ proj.ret \notin {ErrOCIEnv, ErrGitEnv, ErrCache}
       /\ ~proj.net

\* A ToProject with Offline false registered the OCI loader and loaded the
\* project through it.
C21_Witness ==
  /\ proj.pc = "done" /\ ~proj.offline /\ proj.ret = "project" /\ proj.net
  /\ \E n \in 1..Len(proj.po) :
       proj.po[n].kind = "oci" /\ ~proj.po[n].loader.offline
====
